---- MODULE Spec2Model ----
(***************************************************************************)
(* Model of incentive_app.py: nine incentive calculators run in order by   *)
(* main().  Every calculator reads its widget values and computes and      *)
(* displays its result in one step.                                        *)
(*                                                                         *)
(* Number representation.  Percent and lakh inputs (PCPM, achievement,     *)
(* pct_mrs) are floats in the program; the model holds them as integers    *)
(* in hundredths (1.5 lakh = 150, 105 % = 10500).  Multipliers and rates   *)
(* are held in hundredths as well.  Amounts are exact rationals            *)
(* [num, den] in lowest terms, so that a division is a division and not a  *)
(* truncation and equal values are equal records.                          *)
(***************************************************************************)
EXTENDS Integers, Sequences, FiniteSets

VARIABLES pc, rule, inp, out

vars == <<pc, rule, inp, out>>

----------------------------------------------------------------------------
(* Bounds of the explored input space *)

\* radius, in hundredths (or units), of the neighbourhood explored around
\* every threshold of the program
Spread == 1

\* largest team size explored (the widget has no max_value)
MaxTeam == 2

\* how far past the declared maximum a brand count is explored
CountOver == 1

Near(T) == {t + d : t \in T, d \in (0 - Spread)..Spread}

PcpmValues == {0, 120, 300} \cup Near({150, 250, 400})

AnnualAchValues == {0, 10400, 11200} \cup Near({10500, 11000})

VolumeAchValues == {0, 10100} \cup Near({9500, 10000, 10500, 11000})

ManagerAchValues == {0} \cup Near({9500, 10000})

SalaryValues == {0, 50000, 80000}

SaleValues == {0, 1000000}

PoolValues == {0, 100000, 300000}

ProductValues == {"", "Syrup", "Drops"}

PeriodValues == {"", "Quarter", "Annual"}

\* months: the widget allows 1..3; 0 is the value the guard on line 109 tests
MonthsValues == 0..3

UnitsValues == {0, 2100} \cup Near({200, 400, 600, 800, 1200, 1800})

\* team size: the widget allows >= 1; 0 is the value the guard on line 435 tests
NumMrsValues == 0..MaxTeam

PctValues(threshold) == {0, 10000} \cup Near({threshold * 100})

\* brand counts: the declared range and the values next to it on both sides
BrandCountValues == (0 - CountOver)..(11 + CountOver)

QbCountValues == (0 - CountOver)..(4 + CountOver)

BaseValues == {0, 1000}

CurrentValues ==
    {0, 999, 1000, 1001, 3200}
        \cup {b + t : b \in BaseValues, t \in Near({1500, 3000, 4500, 6000, 7500})}

----------------------------------------------------------------------------
(* Arithmetic of the program's float values, as exact rationals *)

RECURSIVE GCD(_, _)

GCD(a, b) == IF b = 0 THEN a ELSE GCD(b, a % b)

\* the value n / d, for d > 0
Rat(n, d) == LET g == GCD(n, d) IN [num |-> n \div g, den |-> d \div g]

RatLeq(a, b) == a.num * b.den <= b.num * a.den

RatLt(a, b) == a.num * b.den < b.num * a.den

\* Python sequence indexing t[i]: negative indices count from the end,
\* anything outside -len..len-1 raises IndexError
PyIndex(t, i) ==
    IF 0 <= i /\ i < Len(t) THEN [ok |-> TRUE, val |-> t[i + 1]]
    ELSE IF i < 0 /\ 0 - Len(t) <= i THEN [ok |-> TRUE, val |-> t[Len(t) + i + 1]]
    ELSE [ok |-> FALSE, val |-> 0]

----------------------------------------------------------------------------
(* Hyterce dual opportunity *)

hyterce_pcpm_floor(total_units, months) ==
    IF months # 0 THEN Rat(total_units \div months, 1) ELSE Rat(0, 1)

hyterce_pcpm(total_units, months) ==
    IF months # 0 THEN Rat(total_units, months) ELSE Rat(0, 1)

hyterce_slab(pcpm) ==
    IF RatLeq(Rat(200, 1), pcpm)
    THEN IF RatLt(pcpm, Rat(400, 1)) THEN "Slab 1"
         ELSE IF RatLt(pcpm, Rat(600, 1)) THEN "Slab 2"
         ELSE "Slab 3"
    ELSE "No Incentive"

hyterce_rate(product, pcpm, slab) ==
    IF RatLeq(Rat(200, 1), pcpm)
    THEN IF product = "Syrup"
         THEN IF slab = "Slab 1" THEN 4 ELSE IF slab = "Slab 2" THEN 6 ELSE 8
         ELSE IF slab = "Slab 1" THEN 3 ELSE IF slab = "Slab 2" THEN 4 ELSE 5
    ELSE 0

hyterce_calculator(product, total_units, months) ==
    IF product # ""
    THEN LET pcpm == hyterce_pcpm(total_units, months)
             slab == hyterce_slab(pcpm)
             rate == hyterce_rate(product, pcpm, slab)
         IN  [status |-> "result", pcpm |-> pcpm, slab |-> slab, rate |-> rate,
              incentive |-> Rat(pcpm.num * rate, pcpm.den)]
    ELSE [status |-> "prompt"]

----------------------------------------------------------------------------
(* MR annual incentive *)

mr_annual_group(pcpm) ==
    IF pcpm # 0
    THEN IF pcpm < 150 THEN "Group A"
         ELSE IF pcpm < 250 THEN "Group B"
         ELSE IF pcpm < 400 THEN "Group C"
         ELSE "Group D"
    ELSE ""

mr_annual_multiplier_above_105(achievement, group) ==
    IF achievement >= 11000
    THEN IF group = "Group A" THEN 100
         ELSE IF group = "Group B" THEN 110
         ELSE IF group = "Group C" THEN 125
         ELSE IF group = "Group D" THEN 150
         ELSE 0
    ELSE IF achievement > 10500
    THEN IF group = "Group A" THEN 75
         ELSE IF group = "Group B" THEN 80
         ELSE IF group = "Group C" THEN 90
         ELSE IF group = "Group D" THEN 100
         ELSE 0
    ELSE 0

mr_annual_multiplier_bands_swapped(achievement, group) ==
    IF achievement >= 11000
    THEN IF group = "Group A" THEN 75
         ELSE IF group = "Group B" THEN 80
         ELSE IF group = "Group C" THEN 90
         ELSE IF group = "Group D" THEN 100
         ELSE 0
    ELSE IF achievement >= 10500
    THEN IF group = "Group A" THEN 100
         ELSE IF group = "Group B" THEN 110
         ELSE IF group = "Group C" THEN 125
         ELSE IF group = "Group D" THEN 150
         ELSE 0
    ELSE 0

mr_annual_multiplier(achievement, group) ==
    IF achievement >= 11000
    THEN IF group = "Group A" THEN 100
         ELSE IF group = "Group B" THEN 110
         ELSE IF group = "Group C" THEN 125
         ELSE IF group = "Group D" THEN 150
         ELSE 0
    ELSE IF achievement >= 10500
    THEN IF group = "Group A" THEN 75
         ELSE IF group = "Group B" THEN 80
         ELSE IF group = "Group C" THEN 90
         ELSE IF group = "Group D" THEN 100
         ELSE 0
    ELSE 0

mr_annual_incentive(pcpm, achievement, salary) ==
    LET group == mr_annual_group(pcpm)
        multiplier == mr_annual_multiplier(achievement, group)
        incentive == Rat(salary * multiplier, 100)
    IN  IF group # ""
        THEN IF multiplier > 0
             THEN [status |-> "result", group |-> group,
                   multiplier |-> multiplier, incentive |-> incentive]
             ELSE [status |-> "warning", group |-> group,
                   multiplier |-> multiplier, incentive |-> incentive]
        ELSE [status |-> "prompt", group |-> group,
              multiplier |-> multiplier, incentive |-> incentive]

----------------------------------------------------------------------------
(* MR volume incentive (quarterly / annual) *)

mr_volume_group(pcpm) ==
    IF pcpm # 0
    THEN IF pcpm < 150 THEN "Group A"
         ELSE IF pcpm < 250 THEN "Group B"
         ELSE IF pcpm < 400 THEN "Group C"
         ELSE "Group D"
    ELSE ""

lookup_rate_no_95_band(ach, grp) ==
    IF ach >= 11000
    THEN [g \in {"Group A", "Group B", "Group C", "Group D"} |->
            CASE g = "Group A" -> 75 [] g = "Group B" -> 90
              [] g = "Group C" -> 100 [] g = "Group D" -> 120][grp]
    ELSE IF ach >= 10500
    THEN [g \in {"Group A", "Group B", "Group C", "Group D"} |->
            CASE g = "Group A" -> 62 [] g = "Group B" -> 70
              [] g = "Group C" -> 87 [] g = "Group D" -> 100][grp]
    ELSE IF ach >= 10000
    THEN [g \in {"Group A", "Group B", "Group C", "Group D"} |->
            CASE g = "Group A" -> 50 [] g = "Group B" -> 60
              [] g = "Group C" -> 75 [] g = "Group D" -> 80][grp]
    ELSE 0

\* rates in hundredths of a percent of the net primary sale
lookup_rate(ach, grp) ==
    IF ach >= 11000
    THEN [g \in {"Group A", "Group B", "Group C", "Group D"} |->
            CASE g = "Group A" -> 75 [] g = "Group B" -> 90
              [] g = "Group C" -> 100 [] g = "Group D" -> 120][grp]
    ELSE IF ach >= 10500
    THEN [g \in {"Group A", "Group B", "Group C", "Group D"} |->
            CASE g = "Group A" -> 62 [] g = "Group B" -> 70
              [] g = "Group C" -> 87 [] g = "Group D" -> 100][grp]
    ELSE IF ach >= 10000
    THEN [g \in {"Group A", "Group B", "Group C", "Group D"} |->
            CASE g = "Group A" -> 50 [] g = "Group B" -> 60
              [] g = "Group C" -> 75 [] g = "Group D" -> 80][grp]
    ELSE IF ach >= 9500
    THEN [g \in {"Group A", "Group B", "Group C", "Group D"} |->
            CASE g = "Group A" -> 25 [] g = "Group B" -> 30
              [] g = "Group C" -> 35 [] g = "Group D" -> 40][grp]
    ELSE 0

mr_volume_incentive(period, pcpm, achievement, sale) ==
    LET group == mr_volume_group(pcpm)
    IN  IF period # "" /\ group # ""
        THEN LET rate == lookup_rate(achievement, group)
                 incentive == Rat(sale * rate, 100 * 100)
             IN  IF rate > 0
                 THEN [status |-> "result", group |-> group,
                       rate |-> rate, incentive |-> incentive]
                 ELSE [status |-> "warning", group |-> group,
                       rate |-> rate, incentive |-> incentive]
        ELSE [status |-> "prompt", group |-> group, rate |-> 0]

----------------------------------------------------------------------------
(* MR Eminent 11 brand incentive *)

mr_brand_group_inclusive(pcpm) ==
    IF pcpm # 0
    THEN IF pcpm <= 150 THEN "Group A"
         ELSE IF pcpm <= 250 THEN "Group B"
         ELSE IF pcpm <= 400 THEN "Group C"
         ELSE "Group D"
    ELSE ""

mr_brand_group(pcpm) ==
    IF pcpm # 0
    THEN IF pcpm < 150 THEN "Group A"
         ELSE IF pcpm < 250 THEN "Group B"
         ELSE IF pcpm < 400 THEN "Group C"
         ELSE "Group D"
    ELSE ""

mr_brand_amounts ==
    [g \in {"Group A", "Group B", "Group C", "Group D"} |->
        CASE g = "Group A" ->
               <<0, 1000, 2000, 3000, 4000, 5000, 6000, 7000, 8000, 9000, 10000, 11000>>
          [] g = "Group B" ->
               <<0, 1500, 3000, 4500, 6000, 7500, 9000, 10500, 12000, 13500, 15000, 16500>>
          [] g = "Group C" ->
               <<0, 2000, 4000, 6000, 8000, 10000, 12000, 14000, 16000, 18000, 20000, 22000>>
          [] g = "Group D" ->
               <<0, 2500, 5000, 7500, 10000, 12500, 15000, 17500, 20000, 22500, 25000, 27500>>]

mr_brand_index_one_based(num_groups) == num_groups - 1

\* int(num_groups) of an integer widget value is that integer
mr_brand_index(num_groups) == num_groups

mr_brand_incentive(pcpm, num_groups) ==
    LET group == mr_brand_group(pcpm)
    IN  IF group # ""
        THEN LET index == mr_brand_index(num_groups)
                 got == PyIndex(mr_brand_amounts[group], index)
             IN  IF got.ok
                 THEN [status |-> "result", group |-> group,
                       index |-> index, incentive |-> got.val]
                 ELSE [status |-> "error", exc |-> "IndexError",
                       group |-> group, index |-> index]
        ELSE [status |-> "prompt", group |-> group, incentive |-> 0]

----------------------------------------------------------------------------
(* MR quarterly brand-specific incentive *)

mr_qb_group(pcpm) ==
    IF pcpm # 0
    THEN IF pcpm < 150 THEN "Group A"
         ELSE IF pcpm < 250 THEN "Group B"
         ELSE IF pcpm < 400 THEN "Group C"
         ELSE "Group D"
    ELSE ""

mr_qb_amounts ==
    [g \in {"Group A", "Group B", "Group C", "Group D"} |->
        CASE g = "Group A" -> <<0, 500, 1000, 1500, 2000>>
          [] g = "Group B" -> <<0, 750, 1500, 2250, 3000>>
          [] g = "Group C" -> <<0, 1000, 2000, 3000, 4000>>
          [] g = "Group D" -> <<0, 1500, 3000, 4500, 6000>>]

mr_quarterly_brand_incentive(pcpm, num_brands) ==
    LET group == mr_qb_group(pcpm)
    IN  IF group # ""
        THEN LET got == PyIndex(mr_qb_amounts[group], num_brands)
             IN  IF got.ok
                 THEN [status |-> "result", group |-> group,
                       index |-> num_brands, incentive |-> got.val]
                 ELSE [status |-> "error", exc |-> "IndexError",
                       group |-> group, index |-> num_brands]
        ELSE [status |-> "prompt", group |-> group]

----------------------------------------------------------------------------
(* Manager incentive, shared by ASM, RSM/BM and ZBM *)

manager_eligible(pct_mrs, threshold) == pct_mrs >= threshold * 100

manager_multiplier_above_100(eligible, achievement, high_multiplier) ==
    IF eligible
    THEN IF achievement > 10000 THEN high_multiplier
         ELSE IF achievement >= 9500 THEN 100
         ELSE 0
    ELSE 0

\* multiplier in hundredths; high_multiplier is passed in hundredths
manager_multiplier(eligible, achievement, high_multiplier) ==
    IF eligible
    THEN IF achievement >= 10000 THEN high_multiplier
         ELSE IF achievement >= 9500 THEN 100
         ELSE 0
    ELSE 0

manager_amount(multiplier, total_mr_incentive, num_mrs) ==
    IF multiplier > 0
    THEN LET average_mr_incentive ==
                 IF num_mrs # 0 THEN Rat(total_mr_incentive, num_mrs) ELSE Rat(0, 1)
         IN  Rat(average_mr_incentive.num * multiplier, average_mr_incentive.den * 100)
    ELSE Rat(0, 1)

\* the display of lines 437-445: the average shown on line 440 divides again
manager_display(eligible, multiplier, incentive, total_mr_incentive, num_mrs) ==
    IF eligible
    THEN IF num_mrs = 0
         THEN [status |-> "error", exc |-> "ZeroDivisionError",
               eligible |-> eligible, multiplier |-> multiplier]
         ELSE [status |-> "result", eligible |-> eligible,
               multiplier |-> multiplier,
               average |-> Rat(total_mr_incentive, num_mrs),
               incentive |-> incentive]
    ELSE [status |-> "warning", eligible |-> eligible,
          multiplier |-> multiplier, incentive |-> incentive]

manager_incentive(threshold, high_multiplier, achievement, total, num_mrs, pct_mrs) ==
    LET eligible == manager_eligible(pct_mrs, threshold)
        multiplier == manager_multiplier(eligible, achievement, high_multiplier)
        incentive == manager_amount(multiplier, total, num_mrs)
    IN  manager_display(eligible, multiplier, incentive, total, num_mrs)

----------------------------------------------------------------------------
(* Resplash Super 30 *)

resplash_incremental(base_units, current_units) ==
    IF current_units > base_units THEN current_units - base_units ELSE 0

resplash_slab_inclusive(incremental_units) ==
    IF incremental_units <= 1500 THEN [slab |-> "No Incentive", rate |-> 0]
    ELSE IF incremental_units <= 3000 THEN [slab |-> "Aspire", rate |-> 75]
    ELSE IF incremental_units <= 4500 THEN [slab |-> "Eminence", rate |-> 100]
    ELSE IF incremental_units <= 6000 THEN [slab |-> "Pinnacle", rate |-> 125]
    ELSE [slab |-> "Summit", rate |-> 150]

resplash_slab(incremental_units) ==
    IF incremental_units < 1500 THEN [slab |-> "No Incentive", rate |-> 0]
    ELSE IF incremental_units < 3000 THEN [slab |-> "Aspire", rate |-> 75]
    ELSE IF incremental_units < 4500 THEN [slab |-> "Eminence", rate |-> 100]
    ELSE IF incremental_units < 6000 THEN [slab |-> "Pinnacle", rate |-> 125]
    ELSE [slab |-> "Summit", rate |-> 150]

resplash_incentive(base_units, current_units) ==
    LET incremental_units == resplash_incremental(base_units, current_units)
    IN  IF incremental_units > 0
        THEN LET s == resplash_slab(incremental_units)
             IN  [status |-> "result", incremental_units |-> incremental_units,
                  slab |-> s.slab, rate |-> s.rate,
                  precision_incentive |-> Rat(incremental_units * s.rate, 100),
                  excellence_eligible |-> (incremental_units >= 7500)]
        ELSE [status |-> "prompt", incremental_units |-> incremental_units]

----------------------------------------------------------------------------
(* main(): the nine expanders run in order; an exception ends the run and  *)
(* the next run starts again from the first expander                       *)

Expanders == 9

Advance(k, o) == IF o.status = "error" THEN 1 ELSE (k % Expanders) + 1

Init ==
    /\ pc = 1
    /\ rule = "none"
    /\ inp = [none |-> TRUE]
    /\ out = [status |-> "none"]

Hyterce ==
    /\ pc = 1
    /\ \E product \in ProductValues, total_units \in UnitsValues, months \in MonthsValues :
         /\ inp' = [product |-> product, total_units |-> total_units, months |-> months]
         /\ out' = hyterce_calculator(product, total_units, months)
    /\ rule' = "hyterce"
    /\ pc' = Advance(1, out')

MrAnnual ==
    /\ pc = 2
    /\ \E pcpm \in PcpmValues, achievement \in AnnualAchValues, salary \in SalaryValues :
         /\ inp' = [pcpm |-> pcpm, achievement |-> achievement, salary |-> salary]
         /\ out' = mr_annual_incentive(pcpm, achievement, salary)
    /\ rule' = "mr_annual"
    /\ pc' = Advance(2, out')

MrVolume ==
    /\ pc = 3
    /\ \E period \in PeriodValues, pcpm \in PcpmValues,
          achievement \in VolumeAchValues, sale \in SaleValues :
         /\ inp' = [period |-> period, pcpm |-> pcpm,
                    achievement |-> achievement, sale |-> sale]
         /\ out' = mr_volume_incentive(period, pcpm, achievement, sale)
    /\ rule' = "mr_volume"
    /\ pc' = Advance(3, out')

MrBrand ==
    /\ pc = 4
    /\ \E pcpm \in PcpmValues, num_groups \in BrandCountValues :
         /\ inp' = [pcpm |-> pcpm, count |-> num_groups]
         /\ out' = mr_brand_incentive(pcpm, num_groups)
    /\ rule' = "mr_brand"
    /\ pc' = Advance(4, out')

MrQuarterlyBrand ==
    /\ pc = 5
    /\ \E pcpm \in PcpmValues, num_brands \in QbCountValues :
         /\ inp' = [pcpm |-> pcpm, count |-> num_brands]
         /\ out' = mr_quarterly_brand_incentive(pcpm, num_brands)
    /\ rule' = "mr_quarterly_brand"
    /\ pc' = Advance(5, out')

Manager(k, role_name, threshold, high_multiplier) ==
    /\ pc = k
    /\ \E achievement \in ManagerAchValues, total_mr_incentive \in PoolValues,
          num_mrs \in NumMrsValues, pct_mrs \in PctValues(threshold) :
         /\ inp' = [threshold |-> threshold, high_multiplier |-> high_multiplier,
                    achievement |-> achievement,
                    total_mr_incentive |-> total_mr_incentive,
                    num_mrs |-> num_mrs, pct_mrs |-> pct_mrs]
         /\ out' = manager_incentive(threshold, high_multiplier, achievement,
                                     total_mr_incentive, num_mrs, pct_mrs)
    /\ rule' = role_name
    /\ pc' = Advance(k, out')

ASM == Manager(6, "ASM", 60, 150)

RSM_BM == Manager(7, "RSM/BM", 50, 130)

ZBM == Manager(8, "ZBM", 40, 120)

Resplash ==
    /\ pc = 9
    /\ \E base_units \in BaseValues, current_units \in CurrentValues :
         /\ inp' = [base_units |-> base_units, current_units |-> current_units]
         /\ out' = resplash_incentive(base_units, current_units)
    /\ rule' = "resplash"
    /\ pc' = Advance(9, out')

Next ==
    \/ Hyterce
    \/ MrAnnual
    \/ MrVolume
    \/ MrBrand
    \/ MrQuarterlyBrand
    \/ ASM
    \/ RSM_BM
    \/ ZBM
    \/ Resplash

Spec == Init /\ [][Next]_vars

----------------------------------------------------------------------------
(* Properties *)

GroupRules == {"mr_annual", "mr_volume", "mr_brand", "mr_quarterly_brand"}

\* the classification of section 4.1: half-open breakpoints, in hundredths
Classify(p) ==
    CASE p = 0 -> ""
      [] 0 < p /\ p < 150 -> "Group A"
      [] 150 <= p /\ p < 250 -> "Group B"
      [] 250 <= p /\ p < 400 -> "Group C"
      [] p >= 400 -> "Group D"

\* C1: in every rule that uses a group the group derived from a PCPM p is the
\* same and follows the half-open breakpoints: 0 gives the empty group,
\* (0,1.5) A, [1.5,2.5) B, [2.5,4.0) C, [4.0,..) D; 1.5 is B and 4.0 is D.
C1_GroupBreakpoints ==
    rule \in GroupRules =>
        /\ out.group = Classify(inp.pcpm)
        /\ inp.pcpm = 150 => out.group = "Group B"
        /\ inp.pcpm = 400 => out.group = "Group D"
        /\ inp.pcpm = 0 => out.group = ""

C1_Witness ==
    /\ rule = "mr_brand"
    /\ inp.pcpm = 150
    /\ out.group = "Group B"

\* C2: for every count handed to the Eminent-11 rule (table indices 0..11)
\* and the Quarterly brand rule (0..4) with PCPM > 0, counts outside the
\* declared range included, the index used for the lookup lies in the table's
\* valid range or the count is rejected; the table is never indexed out of
\* bounds.
C2_IndexClampedOrRejected ==
    /\ (rule = "mr_brand" /\ inp.pcpm > 0) =>
          \/ out.status = "rejected"
          \/ out.status = "result" /\ out.index \in 0..11
    /\ (rule = "mr_quarterly_brand" /\ inp.pcpm > 0) =>
          \/ out.status = "rejected"
          \/ out.status = "result" /\ out.index \in 0..4

\* C3: a zero denominator is guarded in every division: Hyterce with months = 0
\* and Manager with team size = 0 finish with a zero or undefined result and
\* never with a runtime division failure, the display of the average included.
C3_ZeroDenominatorGuarded ==
    /\ (rule = "hyterce" /\ inp.months = 0) =>
          \/ out.status = "prompt"
          \/ out.status = "result" /\ out.incentive.num = 0
    /\ (rule \in {"ASM", "RSM/BM", "ZBM"} /\ inp.num_mrs = 0) =>
          /\ out.status # "error"
          /\ out.incentive.num = 0

GroupColumn(g) ==
    CASE g = "Group A" -> 1 [] g = "Group B" -> 2 [] g = "Group C" -> 3 [] g = "Group D" -> 4

\* C5: MR Volume produces a result exactly when a period is selected and
\* PCPM > 0; then the rate is the table value of (achievement band, group),
\* bands >= 110, [105,110), [100,105), [95,100), and 0 (disqualified) below
\* 95, the amount is sale x rate / 100, and Quarter and Annual give the same
\* result for the same other inputs.
C5_VolumeRule ==
    rule = "mr_volume" =>
        LET produced == out.status \in {"result", "warning"}
            a == inp.achievement
            row == IF a >= 11000 THEN <<75, 90, 100, 120>>
                   ELSE IF a >= 10500 THEN <<62, 70, 87, 100>>
                   ELSE IF a >= 10000 THEN <<50, 60, 75, 80>>
                   ELSE IF a >= 9500 THEN <<25, 30, 35, 40>>
                   ELSE <<0, 0, 0, 0>>
        IN  /\ produced <=> (inp.period # "" /\ inp.pcpm > 0)
            /\ produced =>
                  LET rate == row[GroupColumn(Classify(inp.pcpm))]
                  IN  /\ out.rate = rate
                      /\ out.incentive = Rat(inp.sale * rate, 10000)
                      /\ (out.status = "warning") <=> (a < 9500)
                      /\ \A p2 \in {"Quarter", "Annual"} :
                            mr_volume_incentive(p2, inp.pcpm, a, inp.sale) = out

C5_Witness ==
    /\ rule = "mr_volume"
    /\ inp.period = "Annual"
    /\ inp.pcpm = 300
    /\ inp.achievement = 10100
    /\ inp.sale = 1000000
    /\ out.status = "result"
    /\ out.rate = 75
    /\ out.incentive = Rat(7500, 1)

\* C6: MR Annual, PCPM > 0: multiplier A=1.0, B=1.1, C=1.25, D=1.5 for
\* achievement >= 110, A=0.75, B=0.8, C=0.9, D=1.0 for [105,110), 0
\* (disqualified) below 105, amount = salary x multiplier; PCPM = 0: the group
\* is undefined and no incentive is reported, whatever achievement and salary.
C6_AnnualRule ==
    rule = "mr_annual" =>
        LET a == inp.achievement
            row == IF a >= 11000 THEN <<100, 110, 125, 150>>
                   ELSE IF a >= 10500 THEN <<75, 80, 90, 100>>
                   ELSE <<0, 0, 0, 0>>
        IN  /\ inp.pcpm > 0 =>
                  LET mult == row[GroupColumn(Classify(inp.pcpm))]
                  IN  /\ out.multiplier = mult
                      /\ out.incentive = Rat(inp.salary * mult, 100)
                      /\ out.status = IF a >= 10500 THEN "result" ELSE "warning"
            /\ inp.pcpm = 0 =>
                  /\ out.group = ""
                  /\ out.status = "prompt"
                  /\ out.multiplier = 0
                  /\ out.incentive = Rat(0, 1)

C6_Witness ==
    /\ rule = "mr_annual"
    /\ inp.pcpm = 120
    /\ inp.achievement = 11200
    /\ inp.salary = 50000
    /\ out.status = "result"
    /\ out.multiplier = 100
    /\ out.incentive = Rat(50000, 1)

\* C7: Hyterce with a product selected and months in 1..3: PCPM = units /
\* months (fractions kept), slab None below 200, Slab 1 on [200,400), Slab 2 on
\* [400,600), Slab 3 from 600, rate Syrup {4,6,8} / Drops {3,4,5} and 0 for
\* the None slab, amount = PCPM x rate; with no product selected the result
\* is undefined for every units and months.
C7_HyterceRule ==
    rule = "hyterce" =>
        /\ inp.product = "" => out.status = "prompt"
        /\ (inp.product # "" /\ inp.months \in 1..3) =>
              LET u == inp.total_units
                  m == inp.months
                  k == IF u < 200 * m THEN 1
                       ELSE IF u < 400 * m THEN 2
                       ELSE IF u < 600 * m THEN 3
                       ELSE 4
                  rate == IF inp.product = "Syrup" THEN <<0, 4, 6, 8>>[k]
                          ELSE <<0, 3, 4, 5>>[k]
              IN  /\ out.status = "result"
                  /\ out.pcpm.num * m = u * out.pcpm.den
                  /\ out.slab = <<"No Incentive", "Slab 1", "Slab 2", "Slab 3">>[k]
                  /\ out.rate = rate
                  /\ out.incentive.num * m = u * rate * out.incentive.den

C7_Witness ==
    /\ rule = "hyterce"
    /\ inp.product = "Drops"
    /\ inp.total_units = 401
    /\ inp.months = 2
    /\ out.slab = "Slab 1"
    /\ out.rate = 3
    /\ out.pcpm = [num |-> 401, den |-> 2]
    /\ out.incentive = [num |-> 1203, den |-> 2]

\* C8: Resplash: incremental = max(current - base, 0); incremental = 0 gives
\* no result; otherwise None/0 below 1500, Aspire/0.75 on [1500,3000),
\* Eminence/1.00 on [3000,4500), Pinnacle/1.25 on [4500,6000), Summit/1.50
\* from 6000, precision amount = incremental x rate, and excellence_eligible
\* exactly when incremental >= 7500.
C8_ResplashRule ==
    rule = "resplash" =>
        LET d == inp.current_units - inp.base_units
            inc == IF d > 0 THEN d ELSE 0
            k == IF inc < 1500 THEN 1
                 ELSE IF inc < 3000 THEN 2
                 ELSE IF inc < 4500 THEN 3
                 ELSE IF inc < 6000 THEN 4
                 ELSE 5
        IN  /\ inc = 0 => out.status = "prompt"
            /\ inc > 0 =>
                  /\ out.status = "result"
                  /\ out.incremental_units = inc
                  /\ out.slab = <<"No Incentive", "Aspire", "Eminence", "Pinnacle", "Summit">>[k]
                  /\ out.rate = <<0, 75, 100, 125, 150>>[k]
                  /\ out.precision_incentive.num * 100
                        = inc * out.rate * out.precision_incentive.den
                  /\ out.excellence_eligible = (inc >= 7500)

C8_Witness ==
    /\ rule = "resplash"
    /\ inp.base_units = 1000
    /\ inp.current_units = 3200
    /\ out.incremental_units = 2200
    /\ out.slab = "Aspire"
    /\ out.rate = 75
    /\ out.precision_incentive = [num |-> 1650, den |-> 1]
    /\ out.excellence_eligible = FALSE

\* C9: with PCPM > 0 and the count in the declared range, the Eminent-11 flat
\* amount is count x step, step A=1000, B=1500, C=2000, D=2500, for counts
\* 1..11, and the Quarterly flat amount is count x step, step A=500, B=750,
\* C=1000, D=1500, for counts 1..4; index 0 of every table is 0.
C9_BrandTables ==
    /\ (rule = "mr_brand" /\ inp.pcpm > 0 /\ inp.count \in 0..11) =>
          /\ out.status = "result"
          /\ out.incentive
                = inp.count * <<1000, 1500, 2000, 2500>>[GroupColumn(Classify(inp.pcpm))]
    /\ (rule = "mr_quarterly_brand" /\ inp.pcpm > 0 /\ inp.count \in 0..4) =>
          /\ out.status = "result"
          /\ out.incentive
                = inp.count * <<500, 750, 1000, 1500>>[GroupColumn(Classify(inp.pcpm))]

C9_Witness ==
    /\ rule = "mr_brand"
    /\ inp.pcpm = 400
    /\ inp.count = 11
    /\ out.status = "result"
    /\ out.incentive = 27500

\* C10: monotonicity: with all other inputs held fixed, the amount of every
\* rule is non-decreasing in its driving quantity: Hyterce in units, Resplash
\* in current units, MR Volume in sale, MR Annual in salary, Manager in pool,
\* and MR Annual, MR Volume and Manager in achievement.  The comparison is
\* made for every pair of values, inside one slab or band and across them.
C10_Monotone ==
    /\ (rule = "hyterce" /\ out.status = "result") =>
          \A u2 \in UnitsValues :
              u2 >= inp.total_units =>
                  RatLeq(out.incentive,
                         hyterce_calculator(inp.product, u2, inp.months).incentive)
    /\ (rule = "resplash" /\ out.status = "result") =>
          \A c2 \in CurrentValues :
              c2 >= inp.current_units =>
                  RatLeq(out.precision_incentive,
                         resplash_incentive(inp.base_units, c2).precision_incentive)
    /\ (rule = "mr_volume" /\ out.status # "prompt") =>
          /\ \A s2 \in SaleValues :
                s2 >= inp.sale =>
                    RatLeq(out.incentive,
                           mr_volume_incentive(inp.period, inp.pcpm,
                                               inp.achievement, s2).incentive)
          /\ \A a2 \in VolumeAchValues :
                a2 >= inp.achievement =>
                    RatLeq(out.incentive,
                           mr_volume_incentive(inp.period, inp.pcpm,
                                               a2, inp.sale).incentive)
    /\ rule = "mr_annual" =>
          /\ \A s2 \in SalaryValues :
                s2 >= inp.salary =>
                    RatLeq(out.incentive,
                           mr_annual_incentive(inp.pcpm, inp.achievement, s2).incentive)
          /\ \A a2 \in AnnualAchValues :
                a2 >= inp.achievement =>
                    RatLeq(out.incentive,
                           mr_annual_incentive(inp.pcpm, a2, inp.salary).incentive)
    /\ (rule \in {"ASM", "RSM/BM", "ZBM"} /\ out.status # "error") =>
          /\ \A t2 \in PoolValues :
                t2 >= inp.total_mr_incentive =>
                    RatLeq(out.incentive,
                           manager_incentive(inp.threshold, inp.high_multiplier,
                                             inp.achievement, t2, inp.num_mrs,
                                             inp.pct_mrs).incentive)
          /\ \A a2 \in ManagerAchValues :
                a2 >= inp.achievement =>
                    RatLeq(out.incentive,
                           manager_incentive(inp.threshold, inp.high_multiplier,
                                             a2, inp.total_mr_incentive, inp.num_mrs,
                                             inp.pct_mrs).incentive)

\* a state from which a higher achievement moves MR Annual into the next band
C10_Witness ==
    /\ rule = "mr_annual"
    /\ inp.pcpm = 120
    /\ inp.achievement = 10500
    /\ inp.salary = 50000
    /\ out.incentive = Rat(37500, 1)
    /\ RatLt(out.incentive, mr_annual_incentive(inp.pcpm, 11000, inp.salary).incentive)

----------------------------------------------------------------------------
(* The widget state of the page.  Every st.number_input / st.selectbox     *)
(* call names its value by a key string; main() reruns all nine            *)
(* calculators from these values after every edit.  Keys are modelled as   *)
(* sequences of characters so that key_base is computed as the code        *)
(* computes it.  In this specification inp is the whole widget state (key  *)
(* -> value), out the result of each of the nine expanders, and rule the   *)
(* expander whose widget was edited last (0 when none was).                *)

\* number of widgets that may differ from their default value at once
MaxChanged == 2

hyterce_keys ==
    [product |->
        <<"h", "y", "t", "e", "r", "c", "e", "_", "p", "r", "o", "d", "u", "c", "t">>,
     total_units |->
        <<"h", "y", "t", "e", "r", "c", "e", "_", "t", "o", "t", "a", "l", "_", "u", "n", "i", "t", "s">>,
     months |->
        <<"h", "y", "t", "e", "r", "c", "e", "_", "m", "o", "n", "t", "h", "s">>]

mr_annual_keys ==
    [pcpm |->
        <<"m", "r", "_", "a", "n", "n", "u", "a", "l", "_", "p", "c", "p", "m">>,
     achievement |->
        <<"m", "r", "_", "a", "n", "n", "u", "a", "l", "_", "a", "c", "h", "i", "e", "v", "e", "m", "e", "n", "t">>,
     salary |->
        <<"m", "r", "_", "a", "n", "n", "u", "a", "l", "_", "s", "a", "l", "a", "r", "y">>]

mr_volume_keys ==
    [period |->
        <<"m", "r", "_", "v", "o", "l", "u", "m", "e", "_", "p", "e", "r", "i", "o", "d">>,
     pcpm |->
        <<"m", "r", "_", "v", "o", "l", "u", "m", "e", "_", "p", "c", "p", "m">>,
     achievement |->
        <<"m", "r", "_", "v", "o", "l", "u", "m", "e", "_", "a", "c", "h", "i", "e", "v", "e", "m", "e", "n", "t">>,
     sale |->
        <<"m", "r", "_", "v", "o", "l", "u", "m", "e", "_", "s", "a", "l", "e">>]

mr_brand_keys ==
    [pcpm |->
        <<"m", "r", "_", "b", "r", "a", "n", "d", "_", "p", "c", "p", "m">>,
     groups |->
        <<"m", "r", "_", "b", "r", "a", "n", "d", "_", "g", "r", "o", "u", "p", "s">>]

mr_qb_keys ==
    [pcpm |->
        <<"m", "r", "_", "q", "b", "_", "p", "c", "p", "m">>,
     brands |->
        <<"m", "r", "_", "q", "b", "_", "b", "r", "a", "n", "d", "s">>]

resplash_keys ==
    [base_units |->
        <<"r", "e", "s", "p", "l", "a", "s", "h", "_", "b", "a", "s", "e", "_", "u", "n", "i", "t", "s">>,
     current_units |->
        <<"r", "e", "s", "p", "l", "a", "s", "h", "_", "c", "u", "r", "r", "e", "n", "t", "_", "u", "n", "i", "t", "s">>]

\* str.replace for a single character
PyReplace(str, old, new) == [i \in DOMAIN str |-> IF str[i] = old THEN new ELSE str[i]]

manager_key_base_fixed(role_name) == <<"m", "a", "n", "a", "g", "e", "r">>

manager_key_base(role_name) == PyReplace(PyReplace(role_name, "/", "_"), " ", "_")

manager_keys(role_name) ==
    LET key_base == manager_key_base(role_name)
    IN  [achievement |-> key_base \o <<"_", "a", "c", "h", "i", "e", "v", "e", "m", "e", "n", "t">>,
         total |-> key_base \o <<"_", "t", "o", "t", "a", "l">>,
         count |-> key_base \o <<"_", "c", "o", "u", "n", "t">>,
         pct |-> key_base \o <<"_", "p", "c", "t">>]

\* the three manager_incentive calls of main(), at expanders 6, 7 and 8
ManagerCalls ==
    [k \in 6..8 |->
        CASE k = 6 -> [role_name |-> <<"A", "S", "M">>, threshold |-> 60, high_multiplier |-> 150]
          [] k = 7 -> [role_name |-> <<"R", "S", "M", "/", "B", "M">>, threshold |-> 50, high_multiplier |-> 130]
          [] k = 8 -> [role_name |-> <<"Z", "B", "M">>, threshold |-> 40, high_multiplier |-> 120]]

Instances == 1..Expanders

Widget(i, key, default, values) ==
    [inst |-> i, key |-> key, default |-> default, values |-> values]

\* the widgets of each expander: key, default (value=) and the values explored,
\* all within the widget's min_value / max_value
hyterce_widgets ==
    {Widget(1, hyterce_keys.product, "", ProductValues),
     Widget(1, hyterce_keys.total_units, 0, {0, 2100}),
     Widget(1, hyterce_keys.months, 3, {1, 3})}

mr_annual_widgets ==
    {Widget(2, mr_annual_keys.pcpm, 0, {0, 120, 400}),
     Widget(2, mr_annual_keys.achievement, 0, {0, 11000}),
     Widget(2, mr_annual_keys.salary, 0, {0, 50000})}

mr_volume_widgets ==
    {Widget(3, mr_volume_keys.period, "", PeriodValues),
     Widget(3, mr_volume_keys.pcpm, 0, {0, 300}),
     Widget(3, mr_volume_keys.achievement, 0, {0, 10100}),
     Widget(3, mr_volume_keys.sale, 0, {0, 1000000})}

mr_brand_widgets ==
    {Widget(4, mr_brand_keys.pcpm, 0, {0, 400}),
     Widget(4, mr_brand_keys.groups, 1, {1, 11})}

mr_qb_widgets ==
    {Widget(5, mr_qb_keys.pcpm, 0, {0, 400}),
     Widget(5, mr_qb_keys.brands, 1, {1, 4})}

manager_widgets(k) ==
    LET c == ManagerCalls[k]
        keys == manager_keys(c.role_name)
    IN  {Widget(k, keys.achievement, 0, {0, 10000}),
         Widget(k, keys.total, 0, {0, 300000}),
         Widget(k, keys.count, 1, 1..MaxTeam),
         Widget(k, keys.pct, 0, {0, c.threshold * 100})}

resplash_widgets ==
    {Widget(9, resplash_keys.base_units, 0, {0, 1000}),
     Widget(9, resplash_keys.current_units, 0, {0, 3200})}

Widgets ==
    hyterce_widgets \cup mr_annual_widgets \cup mr_volume_widgets
        \cup mr_brand_widgets \cup mr_qb_widgets
        \cup manager_widgets(6) \cup manager_widgets(7) \cup manager_widgets(8)
        \cup resplash_widgets

Keys(i) == {w.key : w \in {x \in Widgets : x.inst = i}}

AllKeys == {w.key : w \in Widgets}

DefaultSession == [k \in AllKeys |-> (CHOOSE w \in Widgets : w.key = k).default]

\* one expander of main() evaluated on the widget state s
RunExpander(i, s) ==
    CASE i = 1 -> hyterce_calculator(s[hyterce_keys.product],
                                     s[hyterce_keys.total_units], s[hyterce_keys.months])
      [] i = 2 -> mr_annual_incentive(s[mr_annual_keys.pcpm],
                                      s[mr_annual_keys.achievement], s[mr_annual_keys.salary])
      [] i = 3 -> mr_volume_incentive(s[mr_volume_keys.period], s[mr_volume_keys.pcpm],
                                      s[mr_volume_keys.achievement], s[mr_volume_keys.sale])
      [] i = 4 -> mr_brand_incentive(s[mr_brand_keys.pcpm], s[mr_brand_keys.groups])
      [] i = 5 -> mr_quarterly_brand_incentive(s[mr_qb_keys.pcpm], s[mr_qb_keys.brands])
      [] i \in 6..8 ->
            LET c == ManagerCalls[i]
                keys == manager_keys(c.role_name)
            IN  manager_incentive(c.threshold, c.high_multiplier, s[keys.achievement],
                                  s[keys.total], s[keys.count], s[keys.pct])
      [] i = 9 -> resplash_incentive(s[resplash_keys.base_units],
                                     s[resplash_keys.current_units])

\* a whole run of main(): an exception in one expander ends the run, and the
\* expanders after it are not run
RunMain(s) ==
    LET ran == [i \in Instances |-> RunExpander(i, s)]
    IN  [i \in Instances |->
            IF \E j \in 1..(i - 1) : ran[j].status = "error"
            THEN [status |-> "not run"]
            ELSE ran[i]]

Changed(s) == Cardinality({k \in AllKeys : s[k] # DefaultSession[k]})

SessionInit ==
    /\ pc = 1
    /\ rule = 0
    /\ inp = DefaultSession
    /\ out = RunMain(DefaultSession)

\* the user changes one widget; the script reruns
SessionEdit ==
    /\ \E w \in Widgets :
         \E v \in w.values :
             /\ v # inp[w.key]
             /\ inp' = [inp EXCEPT ![w.key] = v]
             /\ rule' = w.inst
    /\ Changed(inp') <= MaxChanged
    /\ out' = RunMain(inp')
    /\ pc' = pc

\* the script reruns with no widget changed
SessionRerun ==
    /\ inp' = inp
    /\ rule' = 0
    /\ out' = RunMain(inp)
    /\ pc' = pc

SessionNext ==
    \/ SessionEdit
    \/ SessionRerun

SessionSpec == SessionInit /\ [][SessionNext]_vars

\* no widget key is used by two expanders
KeysPairwiseDistinct == \A i, j \in Instances : i # j => Keys(i) \cap Keys(j) = {}

\* C11: each of the nine rule instances run by main computes its result only
\* from its own inputs: a rerun with identical inputs gives identical results,
\* the input keys of the nine instances are pairwise distinct, and a change
\* to the inputs of one instance never changes the result of another.
C11_Independent ==
    [][/\ inp' = inp => out' = out
       /\ KeysPairwiseDistinct
       /\ \A j \in Instances : j # rule' => out'[j] = out[j]]_vars

\* the ASM inputs were edited into an eligible result while RSM/BM and ZBM,
\* left at their defaults, stay ineligible
C11_Witness ==
    /\ rule = 6
    /\ inp[manager_keys(ManagerCalls[6].role_name).pct] = 6000
    /\ inp[manager_keys(ManagerCalls[6].role_name).achievement] = 10000
    /\ out[6].status = "result"
    /\ out[6].multiplier = 150
    /\ out[7].status = "warning"
    /\ out[8].status = "warning"

====
